---- MODULE Spec2Model ----
(***************************************************************************)
(* Model of the enhanced-rock-weathering service:                          *)
(*   - the financial functions of src/main/utils/financial_analysis.py     *)
(*     over the module-level FEEDSTOCK_PRICES table;                       *)
(*   - the /inference pipeline of src/main/app.py and src/main/Model.py,   *)
(*     run by concurrent requests over the shared assets directory.        *)
(*                                                                         *)
(* Arithmetic is exact (rationals as scaled integers), not IEEE floating   *)
(* point.  Money is counted in 1/Unit dollars with Unit = 20^MaxYears, so  *)
(* that 0.05 = 1/20, 0.15 = 3/20 and (1 + g)^year are all integers.        *)
(***************************************************************************)
EXTENDS Integers, Sequences, FiniteSets, TLC

\* ------------------------------------------------------------------ bounds
MaxYears == 3
MaxArea == 2
MaxKm == 1
MaxOverrides == 2
NReq == 2
MaxLen == 3
MaxConc == 2

\* ------------------------------------------------------- generic helpers
RECURSIVE Pow(_, _)
Pow(b, n) == IF n = 0 THEN 1 ELSE b * Pow(b, n - 1)

\* One dollar, in the model's money unit.
Unit == Pow(20, MaxYears)

\* Optional[float]: <<>> is None, <<v>> is the value v.
None == <<>>
Some(v) == <<v>>

\* Python truthiness of an Optional number: None and 0 are falsy.
Truthy(opt) == opt # None /\ opt[1] # 0

\* `opt or default`
OrDefault(opt, default) == IF Truthy(opt) THEN opt[1] ELSE default

\* ------------------------------------------------- financial_analysis.py
FeedstockType == {"basalt", "larnite", "wollastonite"}

BASALT_COST_PER_TON == 50
LARNITE_COST_PER_TON == 60
WOLLASTONITE_COST_PER_TON == 200
DEFAULT_MRV_COST_PER_TON == 100
DEFAULT_SPREADING_COST_PER_HA == 35
INITIAL_CARBON_PRICE == 340
\* 0.05, in twentieths
ANNUAL_PRICE_GROWTH == 1
\* 0.05, in twentieths
DEFAULT_YIELD_INCREASE == 1
DEFAULT_BASE_CROP_REVENUE == 2000
\* $0.15/km/ton, in twentieths of a dollar
TRANSPORT_COST_PER_KM_TON == 3

\* FeedstockPricing(cost_per_ton, transport_cost_per_ton = 0.0), in money units
FeedstockPricing(cost) == [cost_per_ton |-> cost * Unit, transport_cost_per_ton |-> 0]

\* FinancialParameters.FEEDSTOCK_PRICES as the class body builds it
FEEDSTOCK_PRICES ==
  [f \in FeedstockType |->
     CASE f = "basalt" -> FeedstockPricing(BASALT_COST_PER_TON)
       [] f = "larnite" -> FeedstockPricing(LARNITE_COST_PER_TON)
       [] OTHER -> FeedstockPricing(WOLLASTONITE_COST_PER_TON)]

\* FeedstockPricing.total_cost_per_ton
total_cost_per_ton(pricing) == pricing.cost_per_ton + pricing.transport_cost_per_ton

\* The table after calculate_costs' `if transport_distance_km:` assignment.
SetTransport(tbl, ft, km) ==
  IF Truthy(km)
    THEN [tbl EXCEPT ![ft].transport_cost_per_ton =
            (TRANSPORT_COST_PER_KM_TON * km[1] * Unit) \div 20]
    ELSE tbl

\* The breakdown calculate_costs returns, from the pricing entry it holds.
CostBreakdown(pricing, rate, area, co2, mrv, spread) ==
  LET feedstock_cost == rate * area * total_cost_per_ton(pricing)
      spreading_cost == OrDefault(spread, DEFAULT_SPREADING_COST_PER_HA) * Unit * area
      mrv_cost == OrDefault(mrv, DEFAULT_MRV_COST_PER_TON) * Unit * co2
  IN [feedstock_cost |-> feedstock_cost,
      transport_cost |-> pricing.transport_cost_per_ton * rate * area,
      spreading_cost |-> spreading_cost,
      mrv_cost |-> mrv_cost,
      total_cost |-> feedstock_cost + spreading_cost + mrv_cost]

\* calculate_costs: the table it leaves behind and the breakdown it returns.
calculate_costs(tbl, ft, rate, area, co2, km, mrv, spread) ==
  LET tbl1 == SetTransport(tbl, ft, km)
  IN [prices |-> tbl1,
      ret |-> CostBreakdown(tbl1[ft], rate, area, co2, mrv, spread)]

\* carbon_price as calculate_revenue uses it: the default only for None
EffectiveCarbonPrice(cp) == IF cp = None THEN INITIAL_CARBON_PRICE ELSE cp[1]

\* Mutant: `price_growth or ANNUAL_PRICE_GROWTH`, which replaces a supplied 0.
EffectivePriceGrowthByTruthiness(pg) == OrDefault(pg, ANNUAL_PRICE_GROWTH)

\* price_growth as calculate_revenue uses it: the default only for None
EffectivePriceGrowth(pg) == IF pg = None THEN ANNUAL_PRICE_GROWTH ELSE pg[1]

\* current_carbon_price = carbon_price * (1 + price_growth) ** year, in money units
current_carbon_price(cp, pg, year) ==
  EffectiveCarbonPrice(cp) * Pow(20 + EffectivePriceGrowth(pg), year)
    * Pow(20, MaxYears - year)

\* calculate_revenue
calculate_revenue(co2, area, year, cp, pg, yi, bcr) ==
  LET carbon_revenue == co2 * current_carbon_price(cp, pg, year)
      ag_benefit == area * (OrDefault(yi, DEFAULT_YIELD_INCREASE)
                             * OrDefault(bcr, DEFAULT_BASE_CROP_REVENUE)) * (Unit \div 20)
  IN [carbon_revenue |-> carbon_revenue,
      agricultural_benefit |-> ag_benefit,
      total_revenue |-> carbon_revenue + ag_benefit]

\* Keyword names each function's signature accepts.
CostsKeywords == {"transport_distance_km", "mrv_cost_per_ton", "spreading_cost_per_ha"}
RevenueKeywords == {"carbon_price", "price_growth", "yield_increase", "base_crop_revenue"}

\* kwargs.get(name): the Optional value of a keyword
Kw(kwargs, name) == IF name \in DOMAIN kwargs THEN Some(kwargs[name]) ELSE None

\* calculate_costs(..., **kwargs): TypeError on a keyword it does not accept
CostsAccepts(kwargs) == DOMAIN kwargs \subseteq CostsKeywords

\* calculate_revenue(..., **kwargs): TypeError on a keyword it does not accept
RevenueAccepts(kwargs) == DOMAIN kwargs \subseteq RevenueKeywords

costs_kw(tbl, ft, rate, area, co2, kwargs) ==
  calculate_costs(tbl, ft, rate, area, co2,
                  Kw(kwargs, "transport_distance_km"),
                  Kw(kwargs, "mrv_cost_per_ton"),
                  Kw(kwargs, "spreading_cost_per_ha"))

revenue_kw(co2, area, year, kwargs) ==
  calculate_revenue(co2, area, year,
                    Kw(kwargs, "carbon_price"), Kw(kwargs, "price_growth"),
                    Kw(kwargs, "yield_increase"), Kw(kwargs, "base_crop_revenue"))

\* Mutant: the initial investment without the one-time spreading and MRV costs.
InitialCashFlowFeedstockOnly(costs) == 0 - costs.feedstock_cost

\* The year-0 entry of the cumulative list: the initial investment.
InitialCashFlow(costs) == 0 - costs.total_cost

\* One year's cash flow: revenue less the annual costs.
AnnualCashFlow(revenue, annual_costs) == revenue.total_revenue - annual_costs

\* Mutant: the whole recurring cost breakdown charged every year.
AnnualCostsTotal(breakdown) == breakdown.total_cost

\* calculate_costs(application_rate=0, ...)["mrv_cost"]: only MRV costs recur
AnnualCosts(breakdown) == breakdown.mrv_cost

\* Mutant: range(1, years), which drops the last year.
LoopDoneEarly(year, years) == year >= years

\* range(1, years + 1) is exhausted
LoopDone(year, years) == year > years

\* The body of `for year in range(1, years + 1)`, from `year` on.
RECURSIVE BreakevenLoop(_, _, _, _, _, _, _, _, _, _)
BreakevenLoop(tbl, ft, area, total_co2, kwargs, year, years, annual, cumulative, cumulative_list) ==
  IF LoopDone(year, years)
    THEN [raised |-> FALSE, prices |-> tbl,
          annual_cash_flows |-> annual, cumulative_cash_flows |-> cumulative_list]
  ELSE IF ~RevenueAccepts(kwargs)
    THEN [raised |-> TRUE, prices |-> tbl,
          annual_cash_flows |-> <<>>, cumulative_cash_flows |-> <<>>]
  ELSE IF ~CostsAccepts(kwargs)
    THEN [raised |-> TRUE, prices |-> tbl,
          annual_cash_flows |-> <<>>, cumulative_cash_flows |-> <<>>]
  ELSE
    LET revenue == revenue_kw(total_co2, area, year, kwargs)
        c == costs_kw(tbl, ft, 0, area, total_co2, kwargs)
        annual_cash_flow == AnnualCashFlow(revenue, AnnualCosts(c.ret))
        cum == cumulative + annual_cash_flow
    IN BreakevenLoop(c.prices, ft, area, total_co2, kwargs, year + 1, years,
                     Append(annual, annual_cash_flow), cum,
                     Append(cumulative_list, cum))

\* calculate_breakeven
calculate_breakeven(tbl, seq_rate, ft, rate, area, years, kwargs) ==
  LET total_co2 == seq_rate * area
  IN IF ~CostsAccepts(kwargs)
       THEN [raised |-> TRUE, prices |-> tbl,
             annual_cash_flows |-> <<>>, cumulative_cash_flows |-> <<>>]
       ELSE LET c == costs_kw(tbl, ft, rate, area, total_co2, kwargs)
                first == InitialCashFlow(c.ret)
            IN BreakevenLoop(c.prices, ft, area, total_co2, kwargs, 1, years,
                             <<>>, first, <<first>>)

\* ------------------------------------------------------------ main/Model.py
\* Percentages are counted in tenths of a percent: 0.3 is 3, 1 is 10, 100 is 1000.

\* str.strip() on a string held as a sequence of characters
RECURSIVE LStrip(_)
LStrip(a) == IF a # <<>> /\ Head(a) = " " THEN LStrip(Tail(a)) ELSE a

RECURSIVE RStrip(_)
RStrip(a) ==
  IF a # <<>> /\ a[Len(a)] = " " THEN RStrip(SubSeq(a, 1, Len(a) - 1)) ELSE a

Strip(a) == RStrip(LStrip(a))

\* validate_address: `if not v.strip()`
AddressRejected(v) == Strip(v) = <<>>

\* validate_feedstock_type
FeedstockRejected(v) == v \notin {"basalt", "larnite", "wollastonite"}

\* Field(..., gt=0)
GtZeroRejected(v) == ~(v > 0)

\* validate_clay_pct / validate_silt_pct / validate_sand_pct: `v < 0 or v > 100`
PctRangeRejected(v) == v < 0 \/ v > 1000

\* The fields for which constructing InferenceRequest reports an error.
FieldErrors(s) ==
  {f \in {"address"} : AddressRejected(s.address)}
    \cup {f \in {"feedstock_type"} : FeedstockRejected(s.feedstock_type)}
    \cup {f \in {"area"} : GtZeroRejected(s.area)}
    \cup {f \in {"time_period"} : GtZeroRejected(s.time_period)}
    \cup {f \in {"application_rate"} : GtZeroRejected(s.application_rate)}
    \cup {f \in {"clay_pct"} : GtZeroRejected(s.clay_pct) \/ PctRangeRejected(s.clay_pct)}
    \cup {f \in {"silt_pct"} : GtZeroRejected(s.silt_pct) \/ PctRangeRejected(s.silt_pct)}
    \cup {f \in {"sand_pct"} : GtZeroRejected(s.sand_pct) \/ PctRangeRejected(s.sand_pct)}

\* run_simulation: `if model_config.time_period <= 0`
TimePeriodRejected(s) == s.time_period <= 0

\* run_simulation: `if clay_pct + silt_pct + sand_pct > 1`
SoilSumRejected(s) == s.clay_pct + s.silt_pct + s.sand_pct > 10

\* Mutant: the coordinates check left out.
CoordinatesNeverMissing(coords) == FALSE

\* create_input: `if lat is None or lon is None`
CoordinatesMissing(coords) == coords.lat = None \/ coords.lon = None

\* create_input: `if temperature is None`
TemperatureMissing(temperature) == temperature = None

\* create_input: `if model_config.feedstock_type not in self.FEEDSTOCK_DENSITIES`
FeedstockUnsupported(s) == s.feedstock_type \notin {"basalt", "larnite", "wollastonite"}

\* subprocess.run(..., check=True) raises CalledProcessError on a non-zero exit
SimulatorFailed(exit_code) == exit_code # 0

\* df["CO2(aq)"] raises KeyError when the column is absent
ColumnMissing(out) == ~out.has_column

\* Natural numbers beyond 2^31, as little-endian sequences of base-1000 digits.
RECURSIVE Big(_)
Big(n) == IF n = 0 THEN <<>> ELSE <<n % 1000>> \o Big(n \div 1000)

RECURSIVE MulCarry(_, _, _)
MulCarry(b, k, carry) ==
  IF b = <<>> THEN Big(carry)
  ELSE LET t == Head(b) * k + carry
       IN <<t % 1000>> \o MulCarry(Tail(b), k, t \div 1000)

\* b * k for k > 0
BigMul(b, k) == MulCarry(b, k, 0)

\* 0.25, in hundredths
FIXED_DEPTH == 25
\* 44.01, in hundredths
MOLECULAR_WEIGHT_CO2 == 4401
\* 1.98, in hundredths
CO_2_DENSITY == 198
\* run_simulation's porosity = 0.999999, in millionths
POROSITY == 999999

\* pd.Series.cumsum(): the running sums, in order
RECURSIVE CumsumFrom(_, _)
CumsumFrom(s, acc) ==
  IF s = <<>> THEN <<>>
  ELSE <<acc + Head(s)>> \o CumsumFrom(Tail(s), acc + Head(s))

cumsum(s) == CumsumFrom(s, 0)

\* _compute_total_concentration, in units of 10^-12
compute_total_concentration(co2_series, porosity, area) ==
  LET sums == cumsum(co2_series)
  IN [k \in 1..Len(sums) |->
        BigMul(BigMul(BigMul(BigMul(BigMul(Big(sums[k]), FIXED_DEPTH), area),
                             MOLECULAR_WEIGHT_CO2), porosity), CO_2_DENSITY)]

\* Mutant: iloc[0], the first sample's mass instead of the cumulative total.
FirstElement(ts) == ts[1]

\* concentration_ts.iloc[-1]
LastElement(ts) == ts[Len(ts)]

\* ------------------------------------------------ main/Model.py: create_input
\* Exact fractions [num, den] with den > 0, kept in lowest terms.
RECURSIVE Gcd(_, _)
Gcd(a, b) == IF b = 0 THEN a ELSE Gcd(b, a % b)

Rat(n, d) == LET g == Gcd(n, d) IN [num |-> n \div g, den |-> d \div g]

RatAdd(x, y) == Rat(x.num * y.den + y.num * x.den, x.den * y.den)

\* x * y, cancelling across before multiplying
RatMul(x, y) ==
  LET a == Rat(x.num, y.den)
      b == Rat(y.num, x.den)
  IN [num |-> a.num * b.num, den |-> a.den * b.den]

\* x / y for y > 0
RatDiv(x, y) == RatMul(x, [num |-> y.den, den |-> y.num])

\* Model.FEEDSTOCK_DENSITIES
FEEDSTOCK_DENSITIES(ft) ==
  CASE ft = "basalt" -> Rat(29, 10)
    [] ft = "larnite" -> Rat(33, 10)
    [] OTHER -> Rat(28, 10)

\* Model.FEEDSTOCK_NAMES
FEEDSTOCK_NAMES(ft) ==
  CASE ft = "basalt" -> "An50Ab50AS"
    [] ft = "larnite" -> "Larnite"
    [] OTHER -> "Wollastonite"

\* A percentage held in tenths of a percent, as a fraction
Pct(v) == Rat(v, 10)

\* _calculate_soil_bulk_density:
\* 1.3 + 0.0045 * sand_pct - 0.0045 * clay_pct - 0.002 * silt_pct
calculate_soil_bulk_density(clay, silt, sand) ==
  Rat(130000 + 45 * sand - 45 * clay - 20 * silt, 100000)

\* _calculate_volume_fraction
calculate_volume_fraction(feedstock_density, soil_density, application_rate) ==
  LET mixing_depth == Rat(30, 1)
      one_minus_porosity == Rat(6, 10)
      feedstock_mass_per_cm2 == Rat(application_rate, 100)
      feedstock_volume == RatDiv(feedstock_mass_per_cm2, feedstock_density)
      soil_volume == RatDiv(RatMul(mixing_depth, one_minus_porosity), soil_density)
  IN RatDiv(feedstock_volume, RatAdd(soil_volume, feedstock_volume))

\* _convert_years_to_flows: DOMAIN_LENGTH / years
convert_years_to_flows(years) == Rat(30, years)

\* A number printed with 8 significant digits is held as the integer of its
\* significant digits (trailing zeros dropped) and its decimal exponent.
\* The largest d * 10^e not above n, for n >= d
RECURSIVE LeadingPlace(_, _, _)
LeadingPlace(n, d, e) ==
  IF n \div d >= 10 THEN LeadingPlace(n, d * 10, e + 1) ELSE [den |-> d, exp |-> e]

\* (10 * r) \div d and (10 * r) % d for r < d, by ten additions
RECURSIVE TimesTen(_, _, _, _, _)
TimesTen(r, d, k, q, acc) ==
  IF k = 0 THEN [digit |-> q, rem |-> acc]
  ELSE IF acc + r >= d THEN TimesTen(r, d, k - 1, q + 1, acc + r - d)
  ELSE TimesTen(r, d, k - 1, q, acc + r)

\* Long division: `digit` is the next digit of the quotient, `rem` what is left
\* over; leading zeros lower the exponent, `count` significant digits are kept.
RECURSIVE Digits(_, _, _, _, _, _)
Digits(digit, rem, d, count, acc, exp) ==
  LET next == TimesTen(rem, d, 10, 0, 0)
  IN IF acc = 0 /\ digit = 0
       THEN Digits(next.digit, next.rem, d, count, 0, exp - 1)
     ELSE IF count = 1
       THEN [mantissa |-> acc * 10 + digit, exp |-> exp, rem |-> rem]
     ELSE Digits(next.digit, next.rem, d, count - 1, acc * 10 + digit, exp)

RECURSIVE DropTrailingZeros(_)
DropTrailingZeros(m) == IF m # 0 /\ m % 10 = 0 THEN DropTrailingZeros(m \div 10) ELSE m

\* f"{x:.8}" for x >= 0
Format8(x) ==
  IF x.num = 0 THEN [mantissa |-> 0, exponent |-> 0]
  ELSE LET place == IF x.num >= x.den THEN LeadingPlace(x.num, x.den, 0)
                                      ELSE [den |-> x.den, exp |-> 0]
           t == Digits(x.num \div place.den, x.num % place.den, place.den, 8, 0, place.exp)
           \* round half up on what the eight digits leave over
           up == IF t.rem >= place.den - t.rem THEN t.mantissa + 1 ELSE t.mantissa
       IN IF up = 100000000
            THEN [mantissa |-> 1, exponent |-> t.exp + 1]
            ELSE [mantissa |-> DropTrailingZeros(up), exponent |-> t.exp]

\* f"{x:.8} ssa {ssa}"
Concentration(x, ssa) == [value |-> Format8(x), ssa |-> ssa]

\* zero_string = "0 ssa 0.5"
zero_string == [value |-> [mantissa |-> 0, exponent |-> 0], ssa |-> "0.5"]

\* Mutant: the larnite branch written with the Wollastonite key (and the
\* wollastonite branch with the Larnite key).
handle_volume_fraction_swapped(concentrations, feedstock_type, volume_fraction) ==
  LET set == Concentration(volume_fraction, "0.5")
  IN CASE feedstock_type = "basalt" ->
            [concentrations EXCEPT !["An50Ab50AS"] = set, !["Larnite"] = zero_string,
                                   !["Wollastonite"] = zero_string]
       [] feedstock_type = "larnite" ->
            [concentrations EXCEPT !["An50Ab50AS"] = zero_string, !["Larnite"] = zero_string,
                                   !["Wollastonite"] = set]
       [] feedstock_type = "wollastonite" ->
            [concentrations EXCEPT !["An50Ab50AS"] = zero_string, !["Larnite"] = set,
                                   !["Wollastonite"] = zero_string]
       [] OTHER -> concentrations

\* _handle_volume_fraction: the Feedstock condition's concentrations afterwards
handle_volume_fraction(concentrations, feedstock_type, volume_fraction) ==
  LET set == Concentration(volume_fraction, "0.5")
  IN CASE feedstock_type = "basalt" ->
            [concentrations EXCEPT !["An50Ab50AS"] = set, !["Larnite"] = zero_string,
                                   !["Wollastonite"] = zero_string]
       [] feedstock_type = "larnite" ->
            [concentrations EXCEPT !["An50Ab50AS"] = zero_string, !["Larnite"] = set,
                                   !["Wollastonite"] = zero_string]
       [] feedstock_type = "wollastonite" ->
            [concentrations EXCEPT !["An50Ab50AS"] = zero_string, !["Larnite"] = zero_string,
                                   !["Wollastonite"] = set]
       [] OTHER -> concentrations

\* _handle_native_soil: the NativeSoil condition's concentrations afterwards
handle_native_soil(concentrations, clay_pct, silt_pct, sand_pct) ==
  [concentrations EXCEPT !["Kaolinite"] = Concentration(Pct(clay_pct), "1"),
                         !["K-Feldspar"] = Concentration(Pct(silt_pct), "0.1"),
                         !["Quartz"] = Concentration(Pct(sand_pct), "0.1")]

\* create_input, lines 191-209: self.simulation after the overlay of the loaded
\* template (temperature is the looked-up value, not None)
create_input(loaded, s, temperature) ==
  LET feedstock_density == FEEDSTOCK_DENSITIES(s.feedstock_type)
      soil_density == calculate_soil_bulk_density(s.clay_pct, s.silt_pct, s.sand_pct)
      volume_fraction ==
        calculate_volume_fraction(feedstock_density, soil_density, s.application_rate)
  IN [loaded EXCEPT
        !.set_temperature = temperature[1],
        !.constant_flow = convert_years_to_flows(s.time_period),
        !.Feedstock = handle_volume_fraction(@, s.feedstock_type, volume_fraction),
        !.NativeSoil = handle_native_soil(@, s.clay_pct, s.silt_pct, s.sand_pct)]

\* The stages of one request, in the order run_inference runs them.
StageOrder ==
  <<"validate", "check_inputs", "geocode", "climate", "stage_input",
    "launch", "simulate", "parse", "aggregate">>

\* ------------------------------------------------------------------ state
VARIABLES
  prices,      \* FinancialParameters.FEEDSTOCK_PRICES, the module-level table
  call,        \* the financial call whose result the caller currently holds
  pc,          \* per request: where run_inference stands
  scenario,    \* per request: the raw fields of the request body
  simSeries,   \* per request: the CO2(aq) series the simulator computes from its config
  inputFile,   \* assets/model_modified.in: the request whose config it holds (0: none)
  simInput,    \* per request: the config its simulator process read (0: none)
  outputFile,  \* assets/timeEW2m.out: what the last finished simulator wrote
  parsed,      \* per request: the output it read back
  answers,     \* per request: what each external collaborator answered it
  response,    \* per request: the response sent
  trace,       \* per request: the stages it ran, in order
  launches,    \* per request: how often it launched the simulator
  template,    \* assets/model.in: the baseline input file
  simulation,  \* per request: self.simulation, the loaded and overlaid input
  temperature  \* per request: the temperature the climate lookup answered

finVars == <<prices, call>>
cfgVars == <<template, simulation, temperature>>
pipeVars ==
  <<pc, scenario, simSeries, inputFile, simInput, outputFile, parsed, answers,
    response, trace, launches, cfgVars>>
vars == <<finVars, pipeVars>>

NoCall == [fn |-> "none"]

\* ---------------------------------------------- inputs of the financial calls
Rates == {0, 1, 2}
SeqRates == {0, 1}
Areas == 1..MaxArea
Tons == {0, 1, 2}
Years == 0..MaxYears
Distances == {None, Some(0)} \cup {Some(k) : k \in 1..MaxKm}
MrvCosts == {None, Some(0), Some(50)}
SpreadingCosts == {None, Some(0), Some(20)}
CarbonPrices == {None, Some(0), Some(10)}
PriceGrowths == {None, Some(0), Some(2)}
YieldIncreases == {None, Some(0), Some(2)}
BaseCropRevenues == {None, Some(0), Some(1000)}

KeywordValues(k) ==
  CASE k = "transport_distance_km" -> {0} \cup 1..MaxKm
    [] k = "mrv_cost_per_ton" -> {50}
    [] k = "spreading_cost_per_ha" -> {20}
    [] k = "carbon_price" -> {0, 10}
    [] k = "price_growth" -> {0, 2}
    [] k = "yield_increase" -> {2}
    [] OTHER -> {1000}

\* **kwargs of calculate_breakeven: up to MaxOverrides of the optional overrides
Kwargs ==
  UNION {{kw \in [S -> UNION {KeywordValues(k) : k \in S}] :
            \A k \in S : kw[k] \in KeywordValues(k)} :
           S \in {T \in SUBSET (CostsKeywords \cup RevenueKeywords) :
                    Cardinality(T) <= MaxOverrides}}

\* ------------------------------------------------------- the /inference pipeline
Reqs == 1..NReq

NoFile == [owner |-> 0]
NoResponse == [kind |-> "none"]
NoLookup ==
  [coords |-> "pending", temperature |-> "pending", staging |-> "pending",
   exit |-> "pending", column |-> "pending"]

Scenario(address, ft, area, tp, rate, clay, silt, sand) ==
  [address |-> address, feedstock_type |-> ft, area |-> area, time_period |-> tp,
   application_rate |-> rate, clay_pct |-> clay, silt_pct |-> silt, sand_pct |-> sand]

\* A request every check of the code accepts: soil fractions 0.3 / 0.3 / 0.3.
AcceptedScenario(area) == Scenario(<<"x">>, "basalt", area, 1, 1, 3, 3, 3)

\* Request bodies of the concurrent runs: accepted, rejected by run_simulation
\* (20 / 20 / 20), rejected at construction (blank address).
PipeScenarios ==
  {AcceptedScenario(1),
   Scenario(<<"x">>, "basalt", 1, 1, 1, 200, 200, 200),
   Scenario(<<" ">>, "basalt", 1, 1, 1, 3, 3, 3)}

\* Request bodies of the validation runs.
Addresses == {<<>>, <<" ">>, <<"x">>, <<" ", "x">>}
PctValues == {-10, 0, 3, 200, 500, 1000, 1010}
RawScenarios ==
  {Scenario(a, ft, area, tp, rate, clay, silt, sand) :
     a \in Addresses, ft \in FeedstockType \cup {"granite"}, area \in 0..MaxArea,
     tp \in {0, 1, 2}, rate \in {0, 1},
     clay \in PctValues, silt \in PctValues, sand \in PctValues}

\* Simulator outputs: every series of up to MaxLen samples in 0..MaxConc.
AllSeries == UNION {[1..n -> 0..MaxConc] : n \in 0..MaxLen}

\* self.simulation before InputFile.load
NoSimulation == [loaded |-> FALSE]

FeedstockMinerals == {"An50Ab50AS", "Larnite", "Wollastonite", "Calcite"}
SoilMinerals == {"Kaolinite", "K-Feldspar", "Quartz", "Calcite"}

\* A baseline input file: the fields create_input sets and some it does not.
Template(porosity, feedstock) ==
  [set_temperature |-> 25,
   constant_flow |-> Rat(1, 1),
   fix_porosity |-> porosity,
   Feedstock |-> feedstock,
   NativeSoil |-> [m \in SoilMinerals |-> Concentration(Rat(1, 10), "0.1")]]

DefaultTemplate == Template(Rat(4, 10), [m \in FeedstockMinerals |-> zero_string])

\* The baseline files considered: any mix of zero and non-zero feedstock
\* concentrations, two porosities.
Templates ==
  {Template(p, f) :
     p \in {Rat(4, 10), Rat(5, 10)},
     f \in [FeedstockMinerals -> {zero_string, Concentration(Rat(1, 100), "0.5")}]}

\* Request bodies of the input-building runs: every feedstock, each soil
\* fraction 0.1, 0.3 or 0.5 (run_simulation rejects the sums above 1).
CfgScenarios ==
  {Scenario(<<"x">>, ft, 1, tp, rate, clay, silt, sand) :
     ft \in FeedstockType, tp \in {1, 2}, rate \in {1, 2},
     clay \in {1, 3, 5}, silt \in {1, 3, 5}, sand \in {1, 3, 5}}

\* Nothing is loaded yet; the baseline file is one of `templates`.
CfgIdle(templates) ==
  /\ template \in templates
  /\ simulation = [r \in Reqs |-> NoSimulation]
  /\ temperature = [r \in Reqs |-> None]

\* No request has arrived.
PipeIdle ==
  /\ pc = [r \in Reqs |-> "absent"]
  /\ scenario = [r \in Reqs |-> AcceptedScenario(1)]
  /\ simSeries = [r \in Reqs |-> <<>>]
  /\ inputFile = NoFile
  /\ simInput = [r \in Reqs |-> NoFile]
  /\ outputFile = NoFile
  /\ parsed = [r \in Reqs |-> NoFile]
  /\ answers = [r \in Reqs |-> NoLookup]
  /\ response = [r \in Reqs |-> NoResponse]
  /\ trace = [r \in Reqs |-> <<>>]
  /\ launches = [r \in Reqs |-> 0]
  /\ CfgIdle({DefaultTemplate})

\* The requests in `active` have arrived, with bodies and simulator outputs
\* drawn from the given sets.
Arrived(active, bodies, outputs) ==
  /\ pc = [r \in Reqs |-> IF r \in active THEN "start" ELSE "absent"]
  /\ \E b \in [active -> bodies] :
       scenario = [r \in Reqs |-> IF r \in active THEN b[r] ELSE AcceptedScenario(1)]
  /\ \E o \in [active -> outputs] :
       simSeries = [r \in Reqs |-> IF r \in active THEN o[r] ELSE <<>>]
  /\ inputFile = NoFile
  /\ simInput = [r \in Reqs |-> NoFile]
  /\ outputFile = NoFile
  /\ parsed = [r \in Reqs |-> NoFile]
  /\ answers = [r \in Reqs |-> NoLookup]
  /\ response = [r \in Reqs |-> NoResponse]
  /\ trace = [r \in Reqs |-> <<>>]
  /\ launches = [r \in Reqs |-> 0]

FinIdle == prices = FEEDSTOCK_PRICES /\ call = NoCall

\* Concurrent requests (FastAPI runs the sync endpoint on a thread pool).
InitPipe ==
  /\ FinIdle
  /\ Arrived(Reqs, PipeScenarios \cup {AcceptedScenario(1)}, {<<>>, <<1, 2>>})
  /\ CfgIdle({DefaultTemplate})

\* One request, any body.
InitVal == FinIdle /\ Arrived({1}, RawScenarios, {<<1>>}) /\ CfgIdle({DefaultTemplate})

\* One accepted request, any simulator output.
InitAgg ==
  /\ FinIdle
  /\ Arrived({1}, {AcceptedScenario(a) : a \in 1..MaxArea} \cup PipeScenarios, AllSeries)
  /\ CfgIdle({DefaultTemplate})

\* One request that builds its input from any baseline file.
InitCfg ==
  /\ FinIdle
  /\ Arrived({1}, CfgScenarios \cup PipeScenarios, {<<1>>})
  /\ CfgIdle(Templates)

\* The request ends with an error payload: FastAPI's 422 for a body that fails
\* validation, run_inference's {"error": str(e)} for an exception.
Fail(r, stage) ==
  /\ pc' = [pc EXCEPT ![r] = "done"]
  /\ response' = [response EXCEPT ![r] = [kind |-> "error", stage |-> stage]]
  /\ trace' = [trace EXCEPT ![r] = Append(@, stage)]

\* The request moves on to the next stage.
Pass(r, stage, next) ==
  /\ pc' = [pc EXCEPT ![r] = next]
  /\ trace' = [trace EXCEPT ![r] = Append(@, stage)]
  /\ UNCHANGED response

\* FastAPI constructs InferenceRequest from the body before calling run_inference.
Construct(r) ==
  /\ pc[r] = "start"
  /\ IF FieldErrors(scenario[r]) # {}
       THEN Fail(r, "validate")
       ELSE Pass(r, "validate", "check_inputs")
  /\ UNCHANGED <<finVars, scenario, simSeries, inputFile, simInput, outputFile,
                 parsed, answers, launches>>
  /\ UNCHANGED cfgVars

\* run_simulation's own checks of the request
CheckInputs(r) ==
  /\ pc[r] = "check_inputs"
  /\ IF TimePeriodRejected(scenario[r]) \/ SoilSumRejected(scenario[r])
       THEN Fail(r, "check_inputs")
       ELSE Pass(r, "check_inputs", "geocode")
  /\ UNCHANGED <<finVars, scenario, simSeries, inputFile, simInput, outputFile,
                 parsed, answers, launches>>
  /\ UNCHANGED cfgVars

\* create_input: get_lat_lon_from_address, which answers coordinates or (None, None)
Geocode(r) ==
  /\ pc[r] = "geocode"
  /\ \E coords \in {[lat |-> Some(37), lon |-> Some(-122)], [lat |-> None, lon |-> None]} :
       /\ answers' = [answers EXCEPT ![r].coords =
                         IF coords.lat = None THEN "absent" ELSE "found"]
       /\ IF CoordinatesMissing(coords)
            THEN Fail(r, "geocode")
            ELSE Pass(r, "geocode", "climate")
  /\ UNCHANGED <<finVars, scenario, simSeries, inputFile, simInput, outputFile,
                 parsed, launches>>
  /\ UNCHANGED cfgVars

\* create_input: get_average_yearly_temperature, which answers a number or None
Climate(r) ==
  /\ pc[r] = "climate"
  /\ \E t \in {Some(18), None} :
       /\ temperature' = [temperature EXCEPT ![r] = t]
       /\ answers' = [answers EXCEPT ![r].temperature =
                         IF t = None THEN "absent" ELSE "found"]
       /\ IF TemperatureMissing(t)
            THEN Fail(r, "climate")
            ELSE Pass(r, "climate", "stage_input")
  /\ UNCHANGED <<finVars, scenario, simSeries, inputFile, simInput, outputFile,
                 parsed, launches, template, simulation>>

\* create_input: load the template, overlay the fields, save model_modified.in;
\* loading or saving may fail.
StageInput(r) ==
  /\ pc[r] = "stage_input"
  /\ \E io \in {"ok", "load_failed", "save_failed"} :
       LET built == create_input(template, scenario[r], temperature[r])
       IN /\ answers' = [answers EXCEPT ![r].staging =
                           IF io = "ok" THEN "saved" ELSE "failed"]
          /\ IF FeedstockUnsupported(scenario[r]) \/ io = "load_failed"
               THEN Fail(r, "stage_input") /\ UNCHANGED <<inputFile, simulation>>
             ELSE IF io = "save_failed"
               THEN /\ Fail(r, "stage_input")
                    /\ simulation' = [simulation EXCEPT ![r] = built]
                    /\ UNCHANGED inputFile
             ELSE /\ Pass(r, "stage_input", "launch")
                  /\ simulation' = [simulation EXCEPT ![r] = built]
                  /\ inputFile' = [owner |-> r, config |-> built]
  /\ UNCHANGED <<finVars, scenario, simSeries, simInput, outputFile, parsed, launches,
                 template, temperature>>

\* subprocess.run(["CrunchTope", "model_modified.in"]): the simulator starts and
\* reads the input file that is in the assets directory now.
Launch(r) ==
  /\ pc[r] = "launch"
  /\ simInput' = [simInput EXCEPT ![r] = inputFile]
  /\ launches' = [launches EXCEPT ![r] = @ + 1]
  /\ Pass(r, "launch", "simulate")
  /\ UNCHANGED <<finVars, scenario, simSeries, inputFile, outputFile, parsed, answers>>
  /\ UNCHANGED cfgVars

\* The simulator process exits. With exit code 0 it has written timeEW2m.out from
\* the config it read; a failing run may or may not have written it.
SimulatorExit(r) ==
  /\ pc[r] = "simulate"
  /\ \E exit_code \in {0, 1}, wrote \in BOOLEAN, has_column \in BOOLEAN :
       /\ exit_code = 0 => wrote
       /\ outputFile' =
            IF wrote
              THEN [owner |-> simInput[r].owner, has_column |-> has_column,
                    series |-> simSeries[simInput[r].owner]]
              ELSE outputFile
       /\ answers' = [answers EXCEPT ![r].exit = IF exit_code = 0 THEN "zero" ELSE "nonzero"]
       /\ IF SimulatorFailed(exit_code)
            THEN Fail(r, "simulate")
            ELSE Pass(r, "simulate", "parse")
  /\ UNCHANGED <<finVars, scenario, simSeries, inputFile, simInput, parsed, launches>>
  /\ UNCHANGED cfgVars

\* TimeSeries("timeEW2m.out") and df["CO2(aq)"]: read the output file that is in
\* the assets directory now.
ParseOutput(r) ==
  /\ pc[r] = "parse"
  /\ answers' = [answers EXCEPT ![r].column =
                    IF outputFile.has_column THEN "present" ELSE "missing"]
  /\ IF ColumnMissing(outputFile)
       THEN Fail(r, "parse") /\ UNCHANGED parsed
       ELSE /\ Pass(r, "parse", "aggregate")
            /\ parsed' = [parsed EXCEPT ![r] = outputFile]
  /\ UNCHANGED <<finVars, scenario, simSeries, inputFile, simInput, outputFile, launches>>
  /\ UNCHANGED cfgVars

\* _compute_total_concentration, iloc[-1] (IndexError on an empty series) and
\* run_inference's response
Aggregate(r) ==
  /\ pc[r] = "aggregate"
  /\ LET ts == compute_total_concentration(parsed[r].series, POROSITY, scenario[r].area)
     IN IF Len(ts) = 0
          THEN Fail(r, "aggregate")
          ELSE /\ pc' = [pc EXCEPT ![r] = "done"]
               /\ trace' = [trace EXCEPT ![r] = Append(@, "aggregate")]
               /\ response' = [response EXCEPT ![r] =
                                 [kind |-> "ok", concentration_ts |-> ts,
                                  total_concentration |-> LastElement(ts)]]
  /\ UNCHANGED <<finVars, scenario, simSeries, inputFile, simInput, outputFile,
                 parsed, answers, launches>>
  /\ UNCHANGED cfgVars

NextPipe ==
  \E r \in Reqs :
    \/ Construct(r)
    \/ CheckInputs(r)
    \/ Geocode(r)
    \/ Climate(r)
    \/ StageInput(r)
    \/ Launch(r)
    \/ SimulatorExit(r)
    \/ ParseOutput(r)
    \/ Aggregate(r)

SpecPipe == InitPipe /\ [][NextPipe]_vars
SpecVal == InitVal /\ [][NextPipe]_vars
SpecAgg == InitAgg /\ [][NextPipe]_vars
SpecCfg == InitCfg /\ [][NextPipe]_vars

\* ------------------------------------------------- calls of the financial functions
InitFin == FinIdle /\ PipeIdle

CallCosts ==
  /\ call = NoCall
  /\ \E ft \in FeedstockType, rate \in Rates, area \in Areas, co2 \in Tons,
        km \in Distances, mrv \in MrvCosts, spread \in SpreadingCosts :
       LET r == calculate_costs(prices, ft, rate, area, co2, km, mrv, spread)
       IN /\ prices' = r.prices
          /\ call' = [fn |-> "calculate_costs", before |-> prices,
                      feedstock_type |-> ft, application_rate |-> rate, area_ha |-> area,
                      co2_sequestered_tons |-> co2, transport_distance_km |-> km,
                      mrv_cost_per_ton |-> mrv, spreading_cost_per_ha |-> spread,
                      ret |-> r.ret]
  /\ UNCHANGED pipeVars

CallRevenue ==
  /\ call = NoCall
  /\ \E co2 \in Tons, area \in Areas, year \in Years, cp \in CarbonPrices,
        pg \in PriceGrowths, yi \in YieldIncreases, bcr \in BaseCropRevenues :
       /\ call' = [fn |-> "calculate_revenue", before |-> prices,
                   co2_sequestered_tons |-> co2, area_ha |-> area, year |-> year,
                   carbon_price |-> cp, price_growth |-> pg,
                   yield_increase |-> yi, base_crop_revenue |-> bcr,
                   ret |-> calculate_revenue(co2, area, year, cp, pg, yi, bcr)]
       /\ UNCHANGED prices
  /\ UNCHANGED pipeVars

CallBreakeven ==
  /\ call = NoCall
  /\ \E seq_rate \in SeqRates, ft \in FeedstockType, rate \in Rates, area \in Areas,
        years \in Years, kwargs \in Kwargs :
       LET r == calculate_breakeven(prices, seq_rate, ft, rate, area, years, kwargs)
       IN /\ prices' = r.prices
          /\ call' = [fn |-> "calculate_breakeven", before |-> prices,
                      co2_sequestration_rate |-> seq_rate, feedstock_type |-> ft,
                      application_rate |-> rate, area_ha |-> area, years |-> years,
                      kwargs |-> kwargs, raised |-> r.raised,
                      annual_cash_flows |-> r.annual_cash_flows,
                      cumulative_cash_flows |-> r.cumulative_cash_flows]
  /\ UNCHANGED pipeVars

\* The caller drops the returned value object.
Discard == call # NoCall /\ call' = NoCall /\ UNCHANGED prices /\ UNCHANGED pipeVars

NextFin == CallCosts \/ CallRevenue \/ CallBreakeven \/ Discard

SpecFin == InitFin /\ [][NextFin]_vars

\* ============================================================ claims (financial)

\* C2 (as claimed): calculate_costs is state-free: after any sequence of calls
\* the FEEDSTOCK_PRICES table is what the class body built, and the breakdown a
\* calculate_costs call returns is the one its arguments alone determine.
C2_PricesTableUnchanged ==
  /\ prices = FEEDSTOCK_PRICES
  /\ call.fn = "calculate_costs" =>
       call.ret = calculate_costs(FEEDSTOCK_PRICES, call.feedstock_type,
                                  call.application_rate, call.area_ha,
                                  call.co2_sequestered_tons, call.transport_distance_km,
                                  call.mrv_cost_per_ton, call.spreading_cost_per_ha).ret

\* C3: whenever calculate_breakeven returns, cumulative_cash_flows has years+1
\* entries, annual_cash_flows has years entries, and each cumulative entry is the
\* previous one plus that year's annual cash flow; called without overrides it
\* always returns.
C3_BreakevenSeries ==
  call.fn = "calculate_breakeven" =>
    /\ DOMAIN call.kwargs = {} => ~call.raised
    /\ ~call.raised =>
         /\ Len(call.cumulative_cash_flows) = call.years + 1
         /\ Len(call.annual_cash_flows) = call.years
         /\ \A i \in 1..call.years :
              call.cumulative_cash_flows[i + 1] =
                call.cumulative_cash_flows[i] + call.annual_cash_flows[i]

\* C3 witness: a returned projection over the longest horizon with cash flows
\* that differ from year to year.
C3_Witness ==
  /\ call.fn = "calculate_breakeven"
  /\ ~call.raised
  /\ call.years = MaxYears
  /\ call.annual_cash_flows[1] # call.annual_cash_flows[MaxYears]
  /\ call.annual_cash_flows[1] > 0

\* C4: calculate_breakeven with years = 0 returns (whenever calculate_costs
\* accepts the overrides) exactly one cumulative cash flow, the negated total_cost
\* of calculate_costs for the given feedstock, application rate, area and
\* rate x area tons, and an empty annual list.
C4_BreakevenYearZero ==
  (call.fn = "calculate_breakeven" /\ call.years = 0 /\ CostsAccepts(call.kwargs)) =>
    /\ ~call.raised
    /\ call.annual_cash_flows = <<>>
    /\ call.cumulative_cash_flows =
         << 0 - calculate_costs(call.before, call.feedstock_type, call.application_rate,
                                call.area_ha, call.co2_sequestration_rate * call.area_ha,
                                Kw(call.kwargs, "transport_distance_km"),
                                Kw(call.kwargs, "mrv_cost_per_ton"),
                                Kw(call.kwargs, "spreading_cost_per_ha")).ret.total_cost >>

\* C4 witness: a years = 0 projection of a scenario with feedstock, spreading
\* and MRV costs all present.
C4_Witness ==
  /\ call.fn = "calculate_breakeven"
  /\ call.years = 0
  /\ ~call.raised
  /\ call.application_rate > 0
  /\ call.co2_sequestration_rate > 0
  /\ call.cumulative_cash_flows[1] < 0

\* C5 (as claimed): total_cost is the sum of the four reported components.
C5_TotalIsSumOfComponents ==
  call.fn = "calculate_costs" =>
    call.ret.total_cost = call.ret.feedstock_cost + call.ret.transport_cost
                            + call.ret.spreading_cost + call.ret.mrv_cost

\* The carbon price of year n by the compounding law: the year-0 price is p0 and
\* each year's price is (1 + g) times the year before (g in twentieths).
RECURSIVE CompoundedPrice(_, _, _)
CompoundedPrice(p0, g, n) ==
  IF n = 0 THEN p0 * Unit ELSE (CompoundedPrice(p0, g, n - 1) * (20 + g)) \div 20

\* C9: carbon_revenue = co2 x carbon_price x (1 + price_growth)^year for every
\* supplied carbon_price and price_growth, 0 included; 340 and 0.05 only when the
\* argument is absent.
C9_CompoundingLaw ==
  call.fn = "calculate_revenue" =>
    \E p0 \in 0..INITIAL_CARBON_PRICE, g \in 0..20 :
      /\ (call.carbon_price = None => p0 = INITIAL_CARBON_PRICE)
      /\ (call.carbon_price # None => p0 = call.carbon_price[1])
      /\ (call.price_growth = None => g = ANNUAL_PRICE_GROWTH)
      /\ (call.price_growth # None => g = call.price_growth[1])
      /\ call.ret.carbon_revenue =
           call.co2_sequestered_tons * CompoundedPrice(p0, g, call.year)

\* C9 witness: a revenue call in a later year with price_growth supplied as 0.
C9_Witness ==
  /\ call.fn = "calculate_revenue"
  /\ call.year = MaxYears
  /\ call.price_growth = Some(0)
  /\ call.carbon_price = Some(10)
  /\ call.co2_sequestered_tons = 2
  /\ call.ret.carbon_revenue = 20 * Unit
\* ============================================================= claims (pipeline)

\* C1 (as claimed): under any interleaving of concurrent requests, the simulator
\* a request launches runs that request's own staged input file, the output the
\* request parses was produced from its own input, and so is what it returns.
C1_OwnArtifacts ==
  \A r \in Reqs :
    /\ simInput[r] # NoFile => simInput[r].owner = r
    /\ parsed[r] # NoFile => parsed[r].owner = r
    /\ response[r].kind = "ok" =>
         response[r].concentration_ts =
           compute_total_concentration(simSeries[r], POROSITY, scenario[r].area)

\* The request has been through InferenceRequest construction.
Constructed(r) == pc[r] \notin {"absent", "start"}

\* Construction failed with a validation error.
ConstructionFailed(r) ==
  response[r].kind = "error" /\ response[r].stage = "validate" /\ pc[r] = "done"

\* A percentage of 101 or of -1
PctOutOfRange(v) == v = 1010 \/ v = -10

\* The inputs the claim lists as rejected at construction.
ListedDefect(s) ==
  \/ \A i \in 1..Len(s.address) : s.address[i] = " "
  \/ s.feedstock_type \notin {"basalt", "larnite", "wollastonite"}
  \/ s.area = 0
  \/ s.time_period = 0
  \/ PctOutOfRange(s.clay_pct) \/ PctOutOfRange(s.silt_pct) \/ PctOutOfRange(s.sand_pct)
  \/ s.clay_pct + s.silt_pct + s.sand_pct > 1000

\* C6 (as claimed): constructing InferenceRequest fails with a validation error
\* for a blank address, an unsupported feedstock, area = 0, time_period = 0, a
\* soil percentage of 101 or -1, and clay + silt + sand > 100.
C6_ConstructionRejects ==
  \A r \in Reqs : (Constructed(r) /\ ListedDefect(scenario[r])) => ConstructionFailed(r)

\* A scenario the specification accepts: each soil percentage in [0, 100], their
\* sum at most 100, the other fields valid.
AcceptableScenario(s) ==
  /\ \E i \in 1..Len(s.address) : s.address[i] # " "
  /\ s.feedstock_type \in {"basalt", "larnite", "wollastonite"}
  /\ s.area > 0 /\ s.time_period > 0 /\ s.application_rate > 0
  /\ \A v \in {s.clay_pct, s.silt_pct, s.sand_pct} : 0 <= v /\ v <= 1000
  /\ s.clay_pct + s.silt_pct + s.sand_pct <= 1000

\* C7 (as claimed): every such scenario is constructed and passes run_simulation's
\* input checks, going on to create_input.
C7_AcceptableScenarioProceeds ==
  \A r \in Reqs :
    (Constructed(r) /\ AcceptableScenario(scenario[r])) =>
      /\ ~ConstructionFailed(r)
      /\ ~(response[r].kind = "error" /\ response[r].stage = "check_inputs")

\* The request failed at `stage` and ran nothing after it.
StoppedAt(r, stage) ==
  /\ pc[r] = "done"
  /\ response[r] = [kind |-> "error", stage |-> stage]
  /\ trace[r] # <<>>
  /\ trace[r][Len(trace[r])] = stage

\* C8: each request runs its stages in the fixed order; a failure at any stage
\* (validation, absent coordinates or temperature, template load/save failure,
\* simulator non-zero exit, missing output column) ends it there with an error
\* payload only; after a failed lookup the input file is not staged and the
\* simulator not launched; the simulator is launched at most once.
C8_PipelineOrderAndFailFast ==
  \A r \in Reqs :
    /\ Len(trace[r]) <= Len(StageOrder)
    /\ trace[r] = SubSeq(StageOrder, 1, Len(trace[r]))
    /\ launches[r] <= 1
    /\ launches[r] = 1 => \E i \in 1..Len(trace[r]) : trace[r][i] = "stage_input"
    /\ response[r].kind = "error" => StoppedAt(r, response[r].stage)
    /\ response[r].kind = "ok" => pc[r] = "done" /\ trace[r] = StageOrder
    /\ pc[r] = "done" => response[r].kind \in {"ok", "error"}
    /\ answers[r].coords = "absent" =>
         StoppedAt(r, "geocode") /\ launches[r] = 0 /\ inputFile.owner # r
    /\ answers[r].temperature = "absent" =>
         StoppedAt(r, "climate") /\ launches[r] = 0 /\ inputFile.owner # r
    /\ answers[r].staging = "failed" =>
         StoppedAt(r, "stage_input") /\ launches[r] = 0 /\ inputFile.owner # r
    /\ answers[r].exit = "nonzero" => StoppedAt(r, "simulate")
    /\ answers[r].column = "missing" => StoppedAt(r, "parse")

\* C8 witness: one request stopped by an absent temperature while another ran
\* the whole pipeline.
C8_Witness ==
  \E r, q \in Reqs :
    /\ answers[r].temperature = "absent" /\ pc[r] = "done"
    /\ response[q].kind = "ok"

\* s[1] + ... + s[k]
RECURSIVE SumUpTo(_, _)
SumUpTo(s, k) == IF k = 0 THEN 0 ELSE SumUpTo(s, k - 1) + s[k]

\* sum x FIXED_DEPTH x area x MOLECULAR_WEIGHT_CO2 x porosity x CO_2_DENSITY in
\* units of 10^-12, multiplied out from the constants' side.
ScaledMass(sum, area) ==
  IF sum = 0 THEN <<>>
  ELSE BigMul(BigMul(BigMul(BigMul(BigMul(Big(CO_2_DENSITY), POROSITY),
                                   MOLECULAR_WEIGHT_CO2), area), FIXED_DEPTH), sum)

\* C10: for a non-empty series the returned series has the same length, its k-th
\* element is the scaled sum of the first k samples, and the total is its last
\* element; for an empty series the request ends with an error and no total.
C10_Aggregation ==
  \A r \in Reqs :
    /\ response[r].kind = "ok" =>
         LET s == parsed[r].series
             ts == response[r].concentration_ts
         IN /\ Len(s) > 0
            /\ Len(ts) = Len(s)
            /\ \A k \in 1..Len(s) : ts[k] = ScaledMass(SumUpTo(s, k), scenario[r].area)
            /\ response[r].total_concentration = ts[Len(s)]
    /\ (pc[r] = "done" /\ parsed[r] # NoFile /\ parsed[r].series = <<>>) =>
         response[r] = [kind |-> "error", stage |-> "aggregate"]

\* C10 witness: a returned series of several samples whose total differs from
\* its first element.
C10_Witness ==
  \E r \in Reqs :
    /\ response[r].kind = "ok"
    /\ Len(parsed[r].series) = MaxLen
    /\ scenario[r].area = MaxArea
    /\ response[r].total_concentration # response[r].concentration_ts[1]
    /\ response[r].concentration_ts[1] # <<>>
\* ================================================= claims (financial, continued)

\* C12: in every projection calculate_breakeven returns, the cash flow of year
\* y in 1..years is calculate_revenue(total_co2, area, y).total_revenue less the
\* MRV cost mrv_cost_per_ton x total_co2 only, whatever the application rate and
\* whatever transport cost the price table holds; the year-0 entry is -total_cost
\* for the application rate as given.
C12_AnnualCashFlowIsRevenueLessMrv ==
  (call.fn = "calculate_breakeven" /\ ~call.raised) =>
    LET total_co2 == call.co2_sequestration_rate * call.area_ha
        mrv_per_ton ==
          IF Truthy(Kw(call.kwargs, "mrv_cost_per_ton"))
            THEN call.kwargs["mrv_cost_per_ton"] ELSE DEFAULT_MRV_COST_PER_TON
    IN /\ \A y \in 1..call.years :
            call.annual_cash_flows[y] =
              calculate_revenue(total_co2, call.area_ha, y,
                                Kw(call.kwargs, "carbon_price"),
                                Kw(call.kwargs, "price_growth"),
                                Kw(call.kwargs, "yield_increase"),
                                Kw(call.kwargs, "base_crop_revenue")).total_revenue
                - mrv_per_ton * Unit * total_co2
       /\ call.cumulative_cash_flows[1] =
            0 - (call.application_rate * call.area_ha
                   * total_cost_per_ton(prices[call.feedstock_type])
                 + OrDefault(Kw(call.kwargs, "spreading_cost_per_ha"),
                             DEFAULT_SPREADING_COST_PER_HA) * Unit * call.area_ha
                 + mrv_per_ton * Unit * total_co2)

\* C12 witness: a returned multi-year projection with a positive application
\* rate, for a feedstock whose table entry carries a transport cost.
C12_Witness ==
  /\ call.fn = "calculate_breakeven"
  /\ ~call.raised
  /\ call.years >= 2
  /\ call.application_rate = 2
  /\ call.co2_sequestration_rate > 0
  /\ prices[call.feedstock_type].transport_cost_per_ton > 0
  /\ call.annual_cash_flows[1] > 0

\* C13 (as claimed): with years >= 1, calculate_breakeven returns both lists for
\* any combination of the overrides calculate_costs or calculate_revenue accepts.
C13_OverridesAccepted ==
  (/\ call.fn = "calculate_breakeven"
   /\ call.years >= 1
   /\ DOMAIN call.kwargs \subseteq CostsKeywords \cup RevenueKeywords) =>
    /\ ~call.raised
    /\ Len(call.cumulative_cash_flows) = call.years + 1
    /\ Len(call.annual_cash_flows) = call.years
\* ============================================== claims (pipeline, continued)

\* The mineral the claim maps each feedstock type to.
MappedMineral(ft) ==
  IF ft = "basalt" THEN "An50Ab50AS" ELSE IF ft = "larnite" THEN "Larnite" ELSE "Wollastonite"

\* C11: once create_input has overlaid the loaded template, exactly one of the
\* Feedstock concentrations An50Ab50AS, Larnite, Wollastonite is the computed
\* volume-fraction string, the one mapped to the request's feedstock type, and
\* the other two are '0 ssa 0.5'; apart from temperature, constant flow and the
\* NativeSoil concentrations of Kaolinite, K-Feldspar and Quartz, every field
\* is as in the template; and the file staged is that overlay.
C11_FeedstockOverlay ==
  \A r \in Reqs :
    simulation[r] # NoSimulation =>
      LET sim == simulation[r]
          s == scenario[r]
          three == {"An50Ab50AS", "Larnite", "Wollastonite"}
          fraction ==
            Concentration(
              calculate_volume_fraction(
                FEEDSTOCK_DENSITIES(s.feedstock_type),
                calculate_soil_bulk_density(s.clay_pct, s.silt_pct, s.sand_pct),
                s.application_rate),
              "0.5")
      IN /\ sim.Feedstock[MappedMineral(s.feedstock_type)] = fraction
         /\ \A m \in three \ {MappedMineral(s.feedstock_type)} :
              sim.Feedstock[m] = zero_string
         /\ Cardinality({m \in three : sim.Feedstock[m] # zero_string}) = 1
         /\ DOMAIN sim = DOMAIN template
         /\ sim.fix_porosity = template.fix_porosity
         /\ DOMAIN sim.Feedstock = DOMAIN template.Feedstock
         /\ \A m \in DOMAIN template.Feedstock \ three :
              sim.Feedstock[m] = template.Feedstock[m]
         /\ DOMAIN sim.NativeSoil = DOMAIN template.NativeSoil
         /\ \A m \in DOMAIN template.NativeSoil \ {"Kaolinite", "K-Feldspar", "Quartz"} :
              sim.NativeSoil[m] = template.NativeSoil[m]
         /\ inputFile.owner = r => inputFile.config = sim

\* C11 witness: a larnite request staged over a template in which all of the
\* feedstock minerals, Calcite included, were non-zero.
C11_Witness ==
  \E r \in Reqs :
    /\ simulation[r] # NoSimulation
    /\ scenario[r].feedstock_type = "larnite"
    /\ scenario[r].application_rate = 2
    /\ \A m \in FeedstockMinerals : template.Feedstock[m] # zero_string
    /\ inputFile.owner = r
    /\ simulation[r].Feedstock["Calcite"] # zero_string
====
